---- MODULE Spec2Model ----
(***************************************************************************)
(* A model of src/src/main.rs: a memory scanner for a running process.     *)
(*                                                                         *)
(*   get_possible_memory_ranges   parses /proc/<pid>/maps          (SpecMaps) *)
(*   find_value / find_value_by_predicate   the initial scan       (SpecScan) *)
(*   reduce_found_values / ..._by_predicate   refine             (SpecRefine) *)
(*   lock_value / unlock_value   background writers      (SpecLock, LiveLock) *)
(*                                                                         *)
(* Text is a sequence of one-character strings. A Result is a record       *)
(* [ok, val]. The scanned type T is a plain byte array [u8; s]: its        *)
(* alignment is 1, so the reference the scan makes at every byte offset    *)
(* (main.rs:76-78) is aligned; a T of larger alignment is not covered.     *)
(***************************************************************************)
EXTENDS Integers, Sequences, FiniteSets, TLC

VARIABLES
    \* ---- the target process
    vmas,         \* its mappings, as the kernel holds them (one per line of the map)
    mem,          \* its memory: address -> byte
    \* ---- get_possible_memory_ranges
    enumResult,   \* what the call returned, or NotCalled
    \* ---- find_value / find_value_by_predicate
    denied,       \* the ranges whose bulk read (process_vm_readv) fails
    test,         \* the value or predicate of the call, with sizeof(T)
    pc,           \* "idle", "par" (the parallel loops run), "done"
    ranges,       \* the Vec get_possible_memory_ranges returned
    rstate,       \* per range: "todo", "read" (data holds its bytes) or "failed"
    data,         \* per range: the bytes read_bytes_from_process returned
    offsDone,     \* the <<range index, offset>> tasks of the inner loop that have run
    found,        \* the shared Vec behind the RwLock
    scanResult,   \* what the scan returned, or NotCalled
    \* ---- reduce_found_values / reduce_found_values_by_predicate
    unreadable,   \* the addresses at which a read (process_vm_readv) fails
    found_values, \* the caller's candidate list
    rtest,        \* the value or predicate of the call, with sizeof(T)
    rpc,          \* "idle", "par" (the parallel loop runs), "done", "panicked"
    pending,      \* the indices whose task of the parallel loop has not run
    to_remove,    \* the shared Vec behind the RwLock
    before,       \* history: the candidate list when the call was made
    readLog,      \* history: per index, what read_from_process returned to its task
    calm,         \* history: calls with this test since the target last changed (0..2)
    \* ---- lock_value / unlock_value
    unwritable,   \* the addresses at which a write (process_vm_writev) fails
    locks,        \* the HashMap: address -> the worker whose flag the entry holds
    workers       \* the spawned threads, in spawn order: address, value, flag (the
                  \* AtomicBool), wpc (where the thread is), held (history: no
                  \* unlock_value of its address was called since its lock_value)

mapsVars == <<enumResult>>
scanVars == <<denied, test, pc, ranges, rstate, data, offsDone, found, scanResult>>
refineVars == <<unreadable, found_values, rtest, rpc, pending, to_remove, before, readLog, calm>>
lockVars == <<unwritable, locks, workers>>
vars == <<vmas, mem, mapsVars, scanVars, refineVars, lockVars>>
\* what a step of a scan, of a refine and of the locks leaves alone
scanFrame == <<vmas, mem, mapsVars, refineVars, lockVars>>
refineFrame == <<vmas, mapsVars, scanVars, lockVars>>
lockFrame == <<vmas, mapsVars, scanVars, refineVars>>

(***************************************************************************)
(* Bounds                                                                  *)
(***************************************************************************)
\* lines in the address-space map of SpecMaps
MaxLines == 2

Err(v) == [ok |-> FALSE, val |-> v]
Ok(v) == [ok |-> TRUE, val |-> v]
NotCalled == [ok |-> FALSE, val |-> "not called"]

(***************************************************************************)
(* Text helpers: str::lines, split_whitespace, last, split_once,           *)
(* contains, usize::from_str_radix.                                        *)
(***************************************************************************)
\* char::is_whitespace, for the characters a map holds
IsWhitespace(c) == c \in {" ", "\t"}

\* str::lines: the pieces between "\n", a final "\n" ending the last line
\* rather than starting an empty one
RECURSIVE LinesFrom(_, _)
LinesFrom(text, cur) ==
    IF text = <<>> THEN (IF cur = <<>> THEN <<>> ELSE <<cur>>)
    ELSE IF Head(text) = "\n" THEN <<cur>> \o LinesFrom(Tail(text), <<>>)
    ELSE LinesFrom(Tail(text), Append(cur, Head(text)))

Lines(text) == LinesFrom(text, <<>>)

\* str::split_whitespace: the maximal runs of non-whitespace characters
RECURSIVE SplitFrom(_, _)
SplitFrom(line, cur) ==
    IF line = <<>> THEN (IF cur = <<>> THEN <<>> ELSE <<cur>>)
    ELSE IF IsWhitespace(Head(line))
         THEN (IF cur = <<>> THEN <<>> ELSE <<cur>>) \o SplitFrom(Tail(line), <<>>)
    ELSE SplitFrom(Tail(line), Append(cur, Head(line)))

SplitWhitespace(line) == SplitFrom(line, <<>>)

\* str::contains(char)
Contains(s, c) == \E i \in 1..Len(s) : s[i] = c

\* str::split_once(char): around the first occurrence, None (ok = FALSE) without one
SplitOnce(s, c) ==
    IF ~Contains(s, c) THEN Err(<<>>)
    ELSE LET i == CHOOSE k \in 1..Len(s) : s[k] = c /\ \A j \in 1..(k - 1) : s[j] # c
         IN  Ok(<<SubSeq(s, 1, i - 1), SubSeq(s, i + 1, Len(s))>>)

HexDigits == <<"0", "1", "2", "3", "4", "5", "6", "7", "8", "9",
               "a", "b", "c", "d", "e", "f">>
HexUpper == <<"0", "1", "2", "3", "4", "5", "6", "7", "8", "9",
              "A", "B", "C", "D", "E", "F">>

\* char::to_digit(16): the digit's value, or -1
ToDigit(c) ==
    IF \E i \in 1..16 : HexDigits[i] = c THEN (CHOOSE i \in 1..16 : HexDigits[i] = c) - 1
    ELSE IF \E i \in 1..16 : HexUpper[i] = c THEN (CHOOSE i \in 1..16 : HexUpper[i] = c) - 1
    ELSE -1

RECURSIVE DigitsValue(_, _)
DigitsValue(s, acc) ==
    IF s = <<>> THEN Ok(acc)
    ELSE IF ToDigit(Head(s)) < 0 THEN Err(0)
    ELSE DigitsValue(Tail(s), acc * 16 + ToDigit(Head(s)))

\* usize::from_str_radix(s, 16): empty is an error, one leading "+" is accepted,
\* "-" is an invalid digit of an unsigned type. The texts of this model have at
\* most a few digits, so the overflow error (more than 16 digits) cannot occur.
FromStrRadix16(s) ==
    IF s = <<>> THEN Err(0)
    ELSE IF Head(s) = "+" THEN (IF Tail(s) = <<>> THEN Err(0) ELSE DigitsValue(Tail(s), 0))
    ELSE DigitsValue(s, 0)

(***************************************************************************)
(* The address-space map as the kernel writes it: one line per mapping,    *)
(* "lo-hi perms offset [label]", addresses in lower-case hexadecimal       *)
(* padded with zeros. A mapping's form says how its line is damaged, if it *)
(* is: the damage is the environment's, the parsing below is the code's.   *)
(***************************************************************************)
RECURSIVE ToHex(_)
ToHex(n) == IF n < 16 THEN <<HexDigits[n + 1]>> ELSE Append(ToHex(n \div 16), HexDigits[(n % 16) + 1])

Pad2(s) == IF Len(s) < 2 THEN <<"0">> \o s ELSE s

RenderRange(v) ==
    CASE v.form = "nodash" -> Pad2(ToHex(v.lo)) \o Pad2(ToHex(v.hi))
      [] v.form = "nonhex" -> Pad2(ToHex(v.lo)) \o <<"-", "z", "z">>
      [] OTHER -> Pad2(ToHex(v.lo)) \o <<"-">> \o Pad2(ToHex(v.hi))

RenderLine(v) ==
    CASE v.form = "empty" -> <<>>
      [] v.form = "noflags" -> RenderRange(v)
      [] OTHER -> RenderRange(v) \o <<" ">> \o v.perms \o <<" ", "0">>
                  \o (IF v.label = <<>> THEN <<>> ELSE <<" ", " ">> \o v.label)

RECURSIVE MapText(_)
MapText(lines) ==
    IF lines = <<>> THEN <<>> ELSE RenderLine(Head(lines)) \o <<"\n">> \o MapText(Tail(lines))

(***************************************************************************)
(* get_possible_memory_ranges, main.rs:34-57                               *)
(***************************************************************************)
\* (a variant that looks for the read flag in the label, the last field)
ParseLineLabelFlags(line) ==
    LET toks == SplitWhitespace(line) IN
    IF toks = <<>> THEN [kind |-> "err", range |-> <<>>]
    ELSE IF Len(toks) < 2 THEN [kind |-> "err", range |-> <<>>]
    ELSE IF ~Contains(toks[Len(toks)], "r") THEN [kind |-> "skip", range |-> <<>>]
    ELSE LET range == SplitOnce(toks[1], "-") IN
         IF ~range.ok THEN [kind |-> "err", range |-> <<>>]
         ELSE LET lower == FromStrRadix16(range.val[1])
                  higher == FromStrRadix16(range.val[2])
              IN  IF ~lower.ok \/ ~higher.ok THEN [kind |-> "err", range |-> <<>>]
                  ELSE [kind |-> "push", range |-> <<lower.val, higher.val>>]

\* One iteration of the loop over the lines (main.rs:42-54): an error (the ?
\* returns it), or the range the line adds, or nothing.
ParseLine(line) ==
    LET toks == SplitWhitespace(line) IN
    \* label = split_whitespace().last().ok_or(..)?   iter.next().ok_or(..)?
    IF toks = <<>> THEN [kind |-> "err", range |-> <<>>]
    \* flags = iter.next().ok_or(..)?
    ELSE IF Len(toks) < 2 THEN [kind |-> "err", range |-> <<>>]
    \* if flags.contains('r')
    ELSE IF ~Contains(toks[2], "r") THEN [kind |-> "skip", range |-> <<>>]
    ELSE LET range == SplitOnce(toks[1], "-") IN
         IF ~range.ok THEN [kind |-> "err", range |-> <<>>]
         ELSE LET lower == FromStrRadix16(range.val[1])
                  higher == FromStrRadix16(range.val[2])
              IN  IF ~lower.ok \/ ~higher.ok THEN [kind |-> "err", range |-> <<>>]
                  ELSE [kind |-> "push", range |-> <<lower.val, higher.val>>]

\* The loop: the first error ends it and is the result
RECURSIVE ParseLines(_, _)
ParseLines(lines, acc) ==
    IF lines = <<>> THEN Ok(acc)
    ELSE LET r == ParseLine(Head(lines)) IN
         CASE r.kind = "err" -> Err(<<>>)
           [] r.kind = "skip" -> ParseLines(Tail(lines), acc)
           [] OTHER -> ParseLines(Tail(lines), Append(acc, r.range))

\* File::open and read_to_string fail when the map cannot be read
GetPossibleMemoryRanges(m) ==
    IF ~m.file THEN Err(<<>>) ELSE ParseLines(Lines(MapText(m.lines)), <<>>)

(***************************************************************************)
(* SpecMaps: every map of at most MaxLines lines is parsed.                *)
(***************************************************************************)
Perms == {<<"r", "-", "-", "p">>, <<"-", "-", "-", "p">>, <<"r", "w", "-", "p">>, <<"-", "w", "x", "s">>}
Labels == {<<>>, <<"/", "r">>}

Vma(lo, hi, perms, label, form) ==
    [lo |-> lo, hi |-> hi, perms |-> perms, label |-> label, form |-> form]

MapLines ==
    {Vma(r[1], r[2], p, l, "ok") : r \in {<<1, 4>>, <<10, 27>>}, p \in Perms, l \in Labels}
    \cup {Vma(1, 4, p, <<>>, f) : p \in Perms, f \in {"nodash", "nonhex"}}
    \cup {Vma(1, 4, <<>>, <<>>, f) : f \in {"noflags", "empty"}}

RECURSIVE SeqsUpTo(_, _)
SeqsUpTo(S, n) ==
    IF n = 0 THEN {<<>>}
    ELSE LET shorter == SeqsUpTo(S, n - 1)
         IN  shorter \cup {Append(q, x) : q \in {t \in shorter : Len(t) = n - 1}, x \in S}

NoMem == <<>>
NoTest == [kind |-> "none", size |-> 0, arg |-> <<>>]

\* The parts of the state a specification does not use
MapsUnused == enumResult = NotCalled
ScanUnused ==
    /\ denied = {} /\ test = NoTest /\ pc = "idle" /\ ranges = <<>> /\ rstate = <<>>
    /\ data = <<>> /\ offsDone = {} /\ found = <<>> /\ scanResult = NotCalled

RefineUnused ==
    /\ unreadable = {} /\ found_values = <<>> /\ rtest = NoTest /\ rpc = "idle"
    /\ pending = {} /\ to_remove = <<>> /\ before = <<>> /\ readLog = <<>> /\ calm = 0

LockUnused == unwritable = {} /\ locks = <<>> /\ workers = <<>>

InitMaps ==
    /\ vmas \in {[file |-> TRUE, lines |-> ls] : ls \in SeqsUpTo(MapLines, MaxLines)}
               \cup {[file |-> FALSE, lines |-> <<>>]}
    /\ enumResult = NotCalled
    /\ mem = NoMem
    /\ ScanUnused
    /\ RefineUnused
    /\ LockUnused

Enumerate ==
    /\ enumResult = NotCalled
    /\ enumResult' = GetPossibleMemoryRanges(vmas)
    /\ UNCHANGED <<vmas, mem, scanVars, refineVars, lockVars>>

NextMaps == Enumerate

SpecMaps == InitMaps /\ [][NextMaps]_vars

\* The ranges of the lines whose read flag is set, in line order
RECURSIVE ReadableRanges(_)
ReadableRanges(lines) ==
    IF lines = <<>> THEN <<>>
    ELSE (IF Head(lines).perms[1] = "r" THEN <<(<<Head(lines).lo, Head(lines).hi>>)>> ELSE <<>>)
         \o ReadableRanges(Tail(lines))

WellFormed(m) == m.file /\ \A i \in 1..Len(m.lines) : m.lines[i].form = "ok"

\* C7: for a well-formed map the result is Ok, holding one (start, end) pair per
\* line whose read flag is set, in line order, with the values of the line's
\* hexadecimal range, and no pair for a line whose read flag is not set.
C7_ReadableRangesInOrder ==
    (enumResult # NotCalled /\ WellFormed(vmas))
        => enumResult = Ok(ReadableRanges(vmas.lines))

C7_Witness ==
    /\ enumResult = Ok(<<(<<10, 27>>)>>)
    /\ Len(vmas.lines) = 2
    /\ vmas.lines[1].perms[1] # "r"
    /\ vmas.lines[1].label # <<>>

\* C8: if any line of the map is malformed, whatever its permission flags, the
\* result is an error.
C8_MalformedLineFails ==
    (enumResult # NotCalled /\ vmas.file /\ ~WellFormed(vmas)) => ~enumResult.ok

(***************************************************************************)
(* find_value (main.rs:59-88) and find_value_by_predicate (main.rs:90-119) *)
(***************************************************************************)
Bytes == {0, 1}
\* the largest sizeof(T)
MaxSize == 2

\* The values of a T of s bytes
Windows(s) == [1..s -> Bytes]

\* The T of s bytes a caller compares with in `|x| *x == ONE`: 0 .. 0 1
One(s) == [j \in 1..s |-> IF j = s THEN 1 ELSE 0]

\* The predicates a caller passes (fn(&T) -> bool), each as the name of a function
PredicateHolds(name, w) ==
    CASE name = "first_is_one" -> w[1] = 1
      [] name = "not_all_zero" -> \E i \in 1..Len(w) : w[i] # 0
      [] name = "equals_one" -> \A i \in 1..Len(w) : w[i] = (IF i = Len(w) THEN 1 ELSE 0)
      [] OTHER -> FALSE

Tests ==
    {[kind |-> "eq", size |-> s, arg |-> v] : s \in 1..MaxSize, v \in UNION {Windows(k) : k \in 1..MaxSize}}
    \cup {[kind |-> "pred", size |-> s, arg |-> n] : s \in 1..MaxSize, n \in {"first_is_one", "not_all_zero", "equals_one"}}

ValidTest(t) == t.kind = "eq" => Len(t.arg) = t.size

\* (a variant whose equality looks at the first byte only)
MatchesFirstByte(t, w) == IF t.kind = "eq" THEN w[1] = t.arg[1] ELSE PredicateHolds(t.arg, w)

\* `*data == value` (main.rs:79) and `predicate(data)` (main.rs:110)
Matches(t, w) == IF t.kind = "eq" THEN w = t.arg ELSE PredicateHolds(t.arg, w)

\* The T the pointer cast at `offset` of a buffer reads (main.rs:76-78)
WindowAt(buf, offset, s) == SubSeq(buf, offset + 1, offset + s)

\* The guard of the inner loop, negated: the offsets it goes on to test (main.rs:74)
OffsetTested(offset, s, num_bytes) == ~(offset + s >= num_bytes)

\* (a variant that drops the error and returns the buffer as resize filled it)
ReadBytesZeroFill(n, base) ==
    IF <<base, base + n>> \in denied THEN Ok([i \in 1..n |-> 0])
    ELSE Ok([i \in 1..n |-> mem[base + i - 1]])

\* read_bytes_from_process (main.rs:16-23): the bytes of [base, base + n), or an
\* error. The call passes one remote iovec, which process_vm_readv transfers
\* whole or not at all.
ReadBytesFromProcess(n, base) ==
    IF <<base, base + n>> \in denied \/ \E a \in base..(base + n - 1) : a \notin DOMAIN mem
    THEN Err(<<>>)
    ELSE Ok([i \in 1..n |-> mem[base + i - 1]])

\* The call, up to the start of the outer parallel loop (main.rs:60-61): the ?
\* returns the enumeration's error
FindValue(t) ==
    /\ pc = "idle"
    /\ test' = t
    /\ LET r == GetPossibleMemoryRanges(vmas) IN
       IF ~r.ok
       THEN /\ pc' = "done"
            /\ scanResult' = Err(<<>>)
            /\ UNCHANGED <<ranges, rstate, data>>
       ELSE /\ pc' = "par"
            /\ ranges' = r.val
            /\ rstate' = [i \in 1..Len(r.val) |-> "todo"]
            /\ data' = [i \in 1..Len(r.val) |-> <<>>]
            /\ UNCHANGED scanResult
    /\ UNCHANGED <<scanFrame, denied, offsDone, found>>

\* One task of the outer loop, up to the start of its inner loop (main.rs:62-70)
RegionTask(i) ==
    /\ pc = "par"
    /\ rstate[i] = "todo"
    /\ LET base_address == ranges[i][1]
           num_bytes == ranges[i][2] - ranges[i][1]
           d == ReadBytesFromProcess(num_bytes, base_address)
       IN  IF ~d.ok
           THEN /\ rstate' = [rstate EXCEPT ![i] = "failed"]
                /\ UNCHANGED data
           ELSE /\ rstate' = [rstate EXCEPT ![i] = "read"]
                /\ data' = [data EXCEPT ![i] = d.val]
    /\ UNCHANGED <<scanFrame, denied, test, pc, ranges, offsDone, found, scanResult>>

\* (a variant that reports the offset for the address)
AddressOfOffsetOnly(base_address, offset) == offset

\* `base_address + offset` (main.rs:72)
AddressOf(base_address, offset) == base_address + offset

\* (a variant whose push takes no write lock: it may overwrite the push of
\* another task, made since this one read the length)
OffsetTaskNoLock(i, offset) ==
    /\ pc = "par"
    /\ rstate[i] = "read"
    /\ offset \in 0..(Len(data[i]) - 1)
    /\ <<i, offset>> \notin offsDone
    /\ offsDone' = offsDone \cup {<<i, offset>>}
    /\ LET address == AddressOf(ranges[i][1], offset)
           num_bytes == ranges[i][2] - ranges[i][1]
       IN  IF OffsetTested(offset, test.size, num_bytes)
              /\ Matches(test, WindowAt(data[i], offset, test.size))
           THEN \E lost \in {0, 1} :
                   /\ lost <= Len(found)
                   /\ found' = Append(SubSeq(found, 1, Len(found) - lost), address)
           ELSE UNCHANGED found
    /\ UNCHANGED <<scanFrame, denied, test, pc, ranges, rstate, data, scanResult>>

\* One task of the inner loop (main.rs:71-84)
OffsetTask(i, offset) ==
    /\ pc = "par"
    /\ rstate[i] = "read"
    /\ offset \in 0..(Len(data[i]) - 1)
    /\ <<i, offset>> \notin offsDone
    /\ offsDone' = offsDone \cup {<<i, offset>>}
    /\ LET address == AddressOf(ranges[i][1], offset)
           num_bytes == ranges[i][2] - ranges[i][1]
       IN  IF OffsetTested(offset, test.size, num_bytes)
              /\ Matches(test, WindowAt(data[i], offset, test.size))
           THEN found' = Append(found, address)
           ELSE UNCHANGED found
    /\ UNCHANGED <<scanFrame, denied, test, pc, ranges, rstate, data, scanResult>>

\* (a variant that returns the error of a range's read)
ScanReturnStrict ==
    /\ pc = "par"
    /\ \A i \in 1..Len(ranges) :
          /\ rstate[i] # "todo"
          /\ rstate[i] = "read" => \A o \in 0..(Len(data[i]) - 1) : <<i, o>> \in offsDone
    /\ pc' = "done"
    /\ scanResult' = IF \E i \in 1..Len(ranges) : rstate[i] = "failed" THEN Err(<<>>) ELSE Ok(found)
    /\ UNCHANGED <<scanFrame, denied, test, ranges, rstate, data, offsDone, found>>

\* Both loops have ended: Ok(found) (main.rs:87)
ScanReturn ==
    /\ pc = "par"
    /\ \A i \in 1..Len(ranges) :
          /\ rstate[i] # "todo"
          /\ rstate[i] = "read" => \A o \in 0..(Len(data[i]) - 1) : <<i, o>> \in offsDone
    /\ pc' = "done"
    /\ scanResult' = Ok(found)
    /\ UNCHANGED <<scanFrame, denied, test, ranges, rstate, data, offsDone, found>>

\* The maps the scans of SpecScan run on
ScanMaps ==
    {[file |-> TRUE, lines |-> <<Vma(1, 4, <<"r", "-", "-", "p">>, <<>>, "ok"),
                                 Vma(5, 7, p, <<>>, "ok")>>] :
        p \in {<<"r", "w", "-", "p">>, <<"-", "-", "-", "p">>}}
    \cup {[file |-> TRUE, lines |-> <<Vma(1, 4, <<"r", "-", "-", "p">>, <<>>, "ok"),
                                      Vma(5, 7, <<"r", "w", "-", "p">>, <<>>, "nonhex")>>],
          [file |-> FALSE, lines |-> <<>>]}

Mapped(m) == UNION {m.lines[i].lo..(m.lines[i].hi - 1) : i \in 1..Len(m.lines)}

ToSet(q) == {q[i] : i \in 1..Len(q)}

InitScan ==
    /\ vmas \in ScanMaps
    /\ mem \in [Mapped(vmas) -> Bytes]
    /\ denied \in SUBSET ToSet(ReadableRanges(vmas.lines))
    /\ MapsUnused
    /\ RefineUnused
    /\ LockUnused
    /\ test = NoTest /\ pc = "idle" /\ ranges = <<>> /\ rstate = <<>>
    /\ data = <<>> /\ offsDone = {} /\ found = <<>> /\ scanResult = NotCalled

NextScan ==
    \/ \E t \in Tests : ValidTest(t) /\ FindValue(t)
    \/ \E i \in 1..Len(ranges) : RegionTask(i)
    \/ \E i \in 1..Len(ranges) : \E o \in 0..(ranges[i][2] - ranges[i][1] - 1) : OffsetTask(i, o)
    \/ ScanReturn

SpecScan == InitScan /\ [][NextScan]_vars

\* The addresses of range i whose window passes the test, the window ending at
\* or before the end of the range
FullWindowHits(i) ==
    LET lo == ranges[i][1]
        n == ranges[i][2] - ranges[i][1]
    IN  {lo + o : o \in {k \in 0..n : k + test.size <= n
                           /\ Matches(test, [j \in 1..test.size |-> mem[lo + k + j - 1]])}}

\* C1: the scan returns exactly the addresses region.start + o, 0 <= o and
\* o + s <= L, of the regions read, whose window passes the test; the last full
\* window, at o = L - s, is among them when it matches.
C1_EveryFullWindowTested ==
    (pc = "done" /\ scanResult.ok)
        => ToSet(scanResult.val) = UNION {FullWindowHits(i) : i \in {k \in 1..Len(ranges) : rstate[k] = "read"}}

\* The addresses of a range that the scan of that range alone reports
RangeHits(r) ==
    LET n == r[2] - r[1]
    IN  {r[1] + o : o \in {k \in 0..(n - 1) : OffsetTested(k, test.size, n)
                             /\ Matches(test, [j \in 1..test.size |-> mem[r[1] + k + j - 1]])}}

\* C6: when the bulk read of some ranges fails and of others succeeds, the scan
\* returns Ok, nothing from a range whose read failed, and exactly what the
\* ranges read contribute.
C6_FailedRangesContributeNothing ==
    (pc = "done" /\ GetPossibleMemoryRanges(vmas).ok)
        => /\ scanResult.ok
           /\ \A r \in denied : \A a \in r[1]..(r[2] - 1) : a \notin ToSet(scanResult.val)
           /\ ToSet(scanResult.val) = UNION {RangeHits(r) : r \in ToSet(ranges) \ denied}

C6_Witness ==
    /\ pc = "done"
    /\ scanResult.ok
    /\ scanResult.val # <<>>
    /\ \E r \in denied : RangeHits(r) # {}
    /\ \E r \in ToSet(ranges) : r \notin denied

\* C11: every address the scan returns lies in an enumerated range [start, end)
\* whose bulk read succeeded, with start <= a and a + sizeof(T) <= end: no
\* window of a returned address runs past the end of its range.
C11_ReturnedWindowsInsideRanges ==
    (pc = "done" /\ scanResult.ok)
        => \A a \in ToSet(scanResult.val) :
              \E r \in ToSet(ReadableRanges(vmas.lines)) \ denied :
                  r[1] <= a /\ a + test.size <= r[2]

C11_Witness ==
    /\ pc = "done" /\ scanResult.ok
    /\ test.size = 2
    /\ denied # {}
    /\ scanResult.val # <<>>

(***************************************************************************)
(* reduce_found_values (main.rs:121-139) and                               *)
(* reduce_found_values_by_predicate (main.rs:141-159)                      *)
(***************************************************************************)
\* the longest candidate list
MaxCands == 3

\* read_from_process (main.rs:5-14): the T at address, or an error
ReadFromProcess(address, s) ==
    IF \E a \in address..(address + s - 1) : a \notin DOMAIN mem \/ a \in unreadable
    THEN Err(<<>>)
    ELSE Ok([j \in 1..s |-> mem[address + j - 1]])

\* (a variant that pushes the index of a value that passes)
MarksIndexInverted(t, read_value) ==
    IF read_value.ok THEN Matches(t, read_value.val) ELSE FALSE

\* The match of a task (main.rs:125-132, 145-152): whether it pushes its index
MarksIndex(t, read_value) ==
    IF read_value.ok THEN ~Matches(t, read_value.val) ELSE FALSE

\* par_sort (main.rs:134): ascending
RECURSIVE InsertSorted(_, _)
InsertSorted(q, x) ==
    IF q = <<>> THEN <<x>>
    ELSE IF x <= Head(q) THEN <<x>> \o q
    ELSE <<Head(q)>> \o InsertSorted(Tail(q), x)

RECURSIVE ParSort(_)
ParSort(q) == IF q = <<>> THEN <<>> ELSE InsertSorted(ParSort(Tail(q)), Head(q))

\* (a variant that counts the index from 1)
VecRemoveNext(v, index) ==
    IF index + 1 >= Len(v) THEN Err(v)
    ELSE Ok(SubSeq(v, 1, index + 1) \o SubSeq(v, index + 3, Len(v)))

\* (a variant that fills the gap with the last element: swap_remove)
VecRemoveSwap(v, index) ==
    IF index >= Len(v) THEN Err(v)
    ELSE Ok([i \in 1..(Len(v) - 1) |-> IF i = index + 1 THEN v[Len(v)] ELSE v[i]])

\* Vec::remove(index), the index counted from 0: it panics (ok = FALSE) out of bounds
VecRemove(v, index) ==
    IF index >= Len(v) THEN Err(v)
    ELSE Ok(SubSeq(v, 1, index) \o SubSeq(v, index + 2, Len(v)))

\* The loop of main.rs:135-137 over `order`, the indices in the order it visits them
RECURSIVE RemoveEach(_, _)
RemoveEach(v, order) ==
    IF order = <<>> THEN Ok(v)
    ELSE LET r == VecRemove(v, Head(order)) IN
         IF ~r.ok THEN r ELSE RemoveEach(r.val, Tail(order))

Reverse(q) == [i \in 1..Len(q) |-> q[Len(q) + 1 - i]]

\* (a variant without the rev())
RemovalOrderAscending(sorted) == sorted

\* to_remove.iter().rev() after the sort: the indices, descending
RemovalOrder(sorted) == Reverse(sorted)

\* The call, up to the start of the parallel loop (main.rs:122)
ReduceFoundValues(t) ==
    /\ rpc = "idle"
    /\ rpc' = "par"
    /\ rtest' = t
    /\ to_remove' = <<>>
    /\ pending' = 0..(Len(found_values) - 1)
    /\ before' = found_values
    /\ readLog' = [i \in 1..Len(found_values) |-> NotCalled]
    /\ calm' = IF calm >= 1 /\ t = rtest THEN 2 ELSE 1
    /\ UNCHANGED <<refineFrame, mem, unreadable, found_values>>

\* One task of the parallel loop (main.rs:123-133)
RefineTask(index) ==
    /\ rpc = "par"
    /\ index \in pending
    /\ pending' = pending \ {index}
    /\ LET read_value == ReadFromProcess(found_values[index + 1], rtest.size) IN
       /\ readLog' = [readLog EXCEPT ![index + 1] = read_value]
       /\ IF MarksIndex(rtest, read_value)
          THEN to_remove' = Append(to_remove, index)
          ELSE UNCHANGED to_remove
    /\ UNCHANGED <<refineFrame, mem, unreadable, found_values, rtest, rpc, before, calm>>

\* The loop has ended: sort, remove from the end, Ok(()) (main.rs:134-138)
ReduceReturn ==
    /\ rpc = "par"
    /\ pending = {}
    /\ to_remove' = ParSort(to_remove)
    /\ LET r == RemoveEach(found_values, RemovalOrder(ParSort(to_remove))) IN
       /\ found_values' = r.val
       /\ rpc' = IF r.ok THEN "done" ELSE "panicked"
    /\ UNCHANGED <<refineFrame, mem, unreadable, rtest, pending, before, readLog, calm>>

\* The call's frame ends: to_remove is dropped, and the history with it
CallerResumes ==
    /\ rpc = "done"
    /\ rpc' = "idle"
    /\ to_remove' = <<>> /\ before' = <<>> /\ readLog' = <<>>
    /\ UNCHANGED <<refineFrame, mem, unreadable, found_values, rtest, pending, calm>>

\* A change of the target, between two steps of the program, ends the calm
TargetChanged ==
    /\ rpc \in {"idle", "par"}
    /\ calm' = 0
    /\ UNCHANGED <<refineFrame, found_values, rtest, rpc, pending, to_remove, before, readLog>>

\* The target writes a byte of its memory
TargetWrite(a, b) ==
    /\ a \in DOMAIN mem
    /\ mem[a] # b
    /\ mem' = [mem EXCEPT ![a] = b]
    /\ UNCHANGED unreadable
    /\ TargetChanged

\* The target unmaps or protects a byte, or makes it readable again
TargetProtect(a) ==
    /\ a \in DOMAIN mem
    /\ unreadable' = IF a \in unreadable THEN unreadable \ {a} ELSE unreadable \cup {a}
    /\ UNCHANGED mem
    /\ TargetChanged

\* the addresses of the memory of SpecRefine: 1..MemSize
MemSize == 3

IsInjective(q) == \A i, j \in 1..Len(q) : q[i] = q[j] => i = j

\* A scan returns each address at most once, in any order
CandidateLists == {q \in SeqsUpTo(1..MemSize, MaxCands) : IsInjective(q)}

\* The tests of the calls of SpecRefine: one value and two predicates per size
RefineTests ==
    {t \in Tests : ValidTest(t) /\ (t.kind = "eq" => t.arg = One(t.size))
                                /\ (t.kind = "pred" => t.arg \in {"not_all_zero", "equals_one"})}

InitRefine ==
    /\ vmas = [file |-> FALSE, lines |-> <<>>]
    /\ mem \in [1..MemSize -> Bytes]
    /\ MapsUnused
    /\ ScanUnused
    /\ LockUnused
    /\ unreadable = {}
    /\ found_values \in CandidateLists
    /\ rtest = NoTest /\ rpc = "idle" /\ pending = {} /\ to_remove = <<>>
    /\ before = <<>> /\ readLog = <<>> /\ calm = 0

NextRefine ==
    \/ \E t \in RefineTests : ReduceFoundValues(t)
    \/ \E i \in 0..(MaxCands - 1) : RefineTask(i)
    \/ ReduceReturn
    \/ CallerResumes
    \/ \E a \in 1..MemSize, b \in Bytes : TargetWrite(a, b)
    \/ \E a \in 1..MemSize : TargetProtect(a)

SpecRefine == InitRefine /\ [][NextRefine]_vars

\* The elements of q at the indices (from 0) outside marks, in their order
RECURSIVE KeepFrom(_, _, _)
KeepFrom(q, marks, index) ==
    IF q = <<>> THEN <<>>
    ELSE (IF index \in marks THEN <<>> ELSE <<Head(q)>>) \o KeepFrom(Tail(q), marks, index + 1)

Accepted(i) == readLog[i + 1].ok /\ Matches(rtest, readLog[i + 1].val)

AllIndices == 0..(Len(before) - 1)

\* C2: when every read of the call succeeded, the list afterwards is exactly the
\* candidates whose read value passes the test: the rejected ones are gone, the
\* accepted ones are still there.
C2_ExactlyTheAccepted ==
    (rpc = "done" /\ \A i \in AllIndices : readLog[i + 1].ok)
        => found_values = KeepFrom(before, {i \in AllIndices : ~Accepted(i)}, 0)

C2_Witness ==
    /\ rpc = "done"
    /\ Len(before) = 3
    /\ \A i \in AllIndices : readLog[i + 1].ok
    /\ Accepted(1) /\ ~Accepted(0) /\ ~Accepted(2)

\* C3: a candidate whose read failed during the call is absent from the list
\* when the call returns.
C3_UnreadableRemoved ==
    rpc = "done"
        => \A i \in AllIndices : ~readLog[i + 1].ok => before[i + 1] \notin ToSet(found_values)

\* C9: a second call with the same test, the target unchanged since the first
\* call was made, leaves the list the first call left.
C9_SecondCallRemovesNothing ==
    (rpc = "done" /\ calm = 2) => found_values = before

C9_Witness ==
    /\ rpc = "done" /\ calm = 2
    /\ found_values # <<>>
    /\ \E i \in AllIndices : ~readLog[i + 1].ok
    /\ \E a \in DOMAIN mem \ ToSet(found_values) :
          LET r == ReadFromProcess(a, rtest.size) IN r.ok /\ ~Matches(rtest, r.val)

\* C10: whatever the order in which the tasks pushed their indices, the list
\* afterwards is exactly the elements at the indices not pushed, in their
\* original order.
C10_RemovalLeavesUnmarked ==
    rpc \in {"done", "panicked"}
        => /\ rpc = "done"
           /\ found_values = KeepFrom(before, ToSet(to_remove), 0)

C10_Witness ==
    /\ rpc = "done"
    /\ Len(before) = 3
    /\ to_remove = <<0, 1>>
    /\ found_values = <<before[3]>>

\* q is p with some elements left out, the others in p's order
RECURSIVE IsSubsequence(_, _)
IsSubsequence(q, p) ==
    IF q = <<>> THEN TRUE
    ELSE IF p = <<>> THEN FALSE
    ELSE IF Head(q) = Head(p) THEN IsSubsequence(Tail(q), Tail(p))
    ELSE IsSubsequence(q, Tail(p))

\* C15: the candidate list never grows: at every step, and so over every
\* refine call and every sequence of them, the list is a subsequence of the
\* list before; an address once out of the list is in no later list.
C15_ListOnlyShrinks ==
    [][IsSubsequence(found_values', found_values)]_vars

C15_Witness ==
    /\ rpc = "done"
    /\ found_values # <<>>
    /\ Len(found_values) < Len(before)
    /\ found_values[1] # before[1]

(***************************************************************************)
(* The scan and the refinement side by side: the runs of find_value and    *)
(* find_value_by_predicate and those of reduce_found_values and            *)
(* reduce_found_values_by_predicate                                        *)
(***************************************************************************)
\* A state of a run of the scan: its memory is that of its map
OfScan == DOMAIN mem = Mapped(vmas)

InitCalls == InitScan \/ InitRefine

\* NextScan in the states of a scan, NextRefine in the others
NextCalls ==
    \/ OfScan /\ \E t \in Tests : ValidTest(t) /\ FindValue(t)
    \/ OfScan /\ \E i \in 1..Len(ranges) : RegionTask(i)
    \/ OfScan /\ \E i \in 1..Len(ranges) :
                    \E o \in 0..(ranges[i][2] - ranges[i][1] - 1) : OffsetTask(i, o)
    \/ OfScan /\ ScanReturn
    \/ ~OfScan /\ \E t \in RefineTests : ReduceFoundValues(t)
    \/ ~OfScan /\ \E i \in 0..(MaxCands - 1) : RefineTask(i)
    \/ ~OfScan /\ ReduceReturn
    \/ ~OfScan /\ CallerResumes
    \/ ~OfScan /\ \E a \in 1..MemSize, b \in Bytes : TargetWrite(a, b)
    \/ ~OfScan /\ \E a \in 1..MemSize : TargetProtect(a)

SpecCalls == InitCalls /\ [][NextCalls]_vars

\* The addresses a scan with test t reports of range r
RangeHitsOf(t, r) ==
    LET n == r[2] - r[1]
    IN  {r[1] + o : o \in {k \in 0..(n - 1) : OffsetTested(k, t.size, n)
                             /\ Matches(t, [j \in 1..t.size |-> mem[r[1] + k + j - 1]])}}

\* The indices a refinement with test t marks, given the values the call read
MarksOf(t) == {i \in AllIndices : MarksIndex(t, readLog[i + 1])}

\* C13: whatever the interleaving of the tasks, found holds each matching
\* address exactly once and to_remove each failing index exactly once: no
\* push is lost and none is made twice, so that the set a scan returns and the
\* marks of a refinement are those the inputs alone determine.
C13_NoLostUpdate ==
    /\ IsInjective(found)
    /\ IsInjective(to_remove)
    /\ (pc = "done" /\ scanResult.ok)
          => /\ IsInjective(scanResult.val)
             /\ ToSet(scanResult.val) = UNION {RangeHitsOf(test, r) : r \in ToSet(ranges) \ denied}
    /\ ((rpc = "par" /\ pending = {}) \/ rpc = "done")
          => ToSet(to_remove) = MarksOf(rtest)

C13_Witness ==
    /\ pc = "done" /\ scanResult.ok
    /\ Len(scanResult.val) = 3
    /\ scanResult.val[1] > scanResult.val[2]
    /\ scanResult.val[2] < scanResult.val[3]

\* C18: a scan returns an error, and no candidates, exactly when
\* get_possible_memory_ranges fails, whatever reads of ranges fail; a
\* refinement returns Ok(()) whatever reads of candidates fail.
C18_OnlyEnumerationFailureAborts ==
    /\ pc = "done"
          => /\ scanResult.ok <=> GetPossibleMemoryRanges(vmas).ok
             /\ ~scanResult.ok => (scanResult.val = <<>> /\ found = <<>>)
    /\ rpc # "panicked"
    /\ (rpc = "par" /\ pending = {})
          => RemoveEach(found_values, RemovalOrder(ParSort(to_remove))).ok

C18_Witness ==
    /\ pc = "done" /\ scanResult.ok
    /\ denied # {}
    /\ \E i \in 1..Len(ranges) : rstate[i] = "failed"

\* The test of the other kind that a caller means the same by: the value
\* One(s) and the predicate `x == One(s)`
HasTwin(t) ==
    \/ t.kind = "eq" /\ t.arg = One(t.size)
    \/ t.kind = "pred" /\ t.arg = "equals_one"

Twin(t) ==
    IF t.kind = "eq"
    THEN [kind |-> "pred", size |-> t.size, arg |-> "equals_one"]
    ELSE [kind |-> "eq", size |-> t.size, arg |-> One(t.size)]

\* C19: on the same ranges, memory and read outcomes, a scan for a value
\* returns the set of addresses the scan by the predicate `x == value` returns,
\* and the other way round; a refinement by a value leaves the list the
\* refinement by that predicate leaves, and the other way round.
C19_EqualityIsThePredicateCase ==
    /\ (pc = "done" /\ scanResult.ok /\ HasTwin(test))
          => ToSet(scanResult.val)
                = UNION {RangeHitsOf(Twin(test), r) : r \in ToSet(ranges) \ denied}
    /\ (rpc = "done" /\ HasTwin(rtest))
          => found_values = KeepFrom(before, MarksOf(Twin(rtest)), 0)

C19_Witness ==
    /\ rpc = "done"
    /\ rtest.kind = "eq" /\ rtest.size = 2
    /\ Len(before) = 3 /\ Len(found_values) = 1
    /\ \E i \in AllIndices : ~readLog[i + 1].ok

(***************************************************************************)
(* lock_value (main.rs:161-175) and unlock_value (main.rs:177-186)         *)
(***************************************************************************)
\* the threads lock_value spawns in one run
MaxWorkers == 2
\* the addresses a caller locks: 1..LockAddrs
LockAddrs == 2

\* The values a caller locks: of one byte, and one of two bytes
LockValues == Windows(1) \cup {[j \in 1..2 |-> 1]}

LockMem == 1..(LockAddrs + 1)

\* process_vm_writev (main.rs:170): whether the write of the value's bytes succeeds
WriteSucceeds(address, value) ==
    \A a \in address..(address + Len(value) - 1) : a \in DOMAIN mem /\ a \notin unwritable

\* lock_value: the flag, the thread, the table entry (an entry of the same
\* address is replaced: HashMap::insert)
LockValue(value, address) ==
    /\ Len(workers) < MaxWorkers
    /\ workers' = Append(workers, [address |-> address, value |-> value, flag |-> TRUE,
                                   wpc |-> "load", held |-> TRUE])
    /\ locks' = [a \in DOMAIN locks \cup {address} |->
                    IF a = address THEN Len(workers) + 1 ELSE locks[a]]
    /\ UNCHANGED <<lockFrame, mem, unwritable>>

\* (a variant that stores false into the flag of every entry)
UnlockValueEveryFlag(address) ==
    /\ workers' = [w \in 1..Len(workers) |->
                     [workers[w] EXCEPT
                        !.held = IF workers[w].address = address THEN FALSE ELSE @,
                        !.flag = IF \E a \in DOMAIN locks : locks[a] = w THEN FALSE ELSE @]]
    /\ locks' = [a \in DOMAIN locks \ {address} |-> locks[a]]
    /\ UNCHANGED <<lockFrame, mem, unwritable>>

\* unlock_value: the entry's flag is stored false and the entry removed; nothing
\* without an entry
UnlockValue(address) ==
    /\ workers' = [w \in 1..Len(workers) |->
                     IF workers[w].address # address THEN workers[w]
                     ELSE [workers[w] EXCEPT
                             !.held = FALSE,
                             !.flag = IF address \in DOMAIN locks /\ locks[address] = w
                                      THEN FALSE ELSE @]]
    /\ locks' = [a \in DOMAIN locks \ {address} |-> locks[a]]
    /\ UNCHANGED <<lockFrame, mem, unwritable>>

\* (a variant whose thread never looks at the flag: `loop` for `while`)
WorkerLoadIgnoresFlag(w) ==
    /\ w \in 1..Len(workers)
    /\ workers[w].wpc = "load"
    /\ workers' = [workers EXCEPT ![w].wpc = "write"]
    /\ UNCHANGED <<lockFrame, mem, unwritable, locks>>

\* The thread: the loop condition (main.rs:169)
WorkerLoad(w) ==
    /\ w \in 1..Len(workers)
    /\ workers[w].wpc = "load"
    /\ workers' = [workers EXCEPT ![w].wpc = IF workers[w].flag THEN "write" ELSE "exit"]
    /\ UNCHANGED <<lockFrame, mem, unwritable, locks>>

\* (a variant whose thread ends at a write that fails: `.unwrap()` for `let _ =`)
WorkerWriteUnwrap(w) ==
    /\ w \in 1..Len(workers)
    /\ workers[w].wpc = "write"
    /\ LET address == workers[w].address
           value == workers[w].value
       IN  IF WriteSucceeds(address, value)
           THEN /\ workers' = [workers EXCEPT ![w].wpc = "sleep"]
                /\ mem' = [a \in DOMAIN mem |->
                             IF a \in address..(address + Len(value) - 1)
                             THEN value[a - address + 1] ELSE mem[a]]
           ELSE /\ workers' = [workers EXCEPT ![w].wpc = "exit"]
                /\ UNCHANGED mem
    /\ UNCHANGED <<lockFrame, unwritable, locks>>

\* The thread: the write, its result dropped (main.rs:170)
WorkerWrite(w) ==
    /\ w \in 1..Len(workers)
    /\ workers[w].wpc = "write"
    /\ workers' = [workers EXCEPT ![w].wpc = "sleep"]
    /\ LET address == workers[w].address
           value == workers[w].value
       IN  IF WriteSucceeds(address, value)
           THEN mem' = [a \in DOMAIN mem |->
                          IF a \in address..(address + Len(value) - 1)
                          THEN value[a - address + 1] ELSE mem[a]]
           ELSE UNCHANGED mem
    /\ UNCHANGED <<lockFrame, unwritable, locks>>

\* (a variant whose thread writes once: an `if` for the `while`)
WorkerWakeOnce(w) ==
    /\ w \in 1..Len(workers)
    /\ workers[w].wpc = "sleep"
    /\ workers' = [workers EXCEPT ![w].wpc = "exit"]
    /\ UNCHANGED <<lockFrame, mem, unwritable, locks>>

\* The thread: the sleep ends (main.rs:171)
WorkerWake(w) ==
    /\ w \in 1..Len(workers)
    /\ workers[w].wpc = "sleep"
    /\ workers' = [workers EXCEPT ![w].wpc = "load"]
    /\ UNCHANGED <<lockFrame, mem, unwritable, locks>>

WorkerStep(w) == WorkerLoad(w) \/ WorkerWrite(w) \/ WorkerWake(w)

\* The target, or another writer, writes a byte
ExternalWrite(a, b) ==
    /\ a \in DOMAIN mem
    /\ a \notin unwritable
    /\ mem[a] # b
    /\ mem' = [mem EXCEPT ![a] = b]
    /\ UNCHANGED <<lockFrame, lockVars>>

\* The target unmaps or protects a byte, or makes it writable again
TargetProtectWrite(a) ==
    /\ a \in DOMAIN mem
    /\ unwritable' = IF a \in unwritable THEN unwritable \ {a} ELSE unwritable \cup {a}
    /\ UNCHANGED <<lockFrame, mem, locks, workers>>

InitLock ==
    /\ vmas = [file |-> FALSE, lines |-> <<>>]
    /\ mem \in [LockMem -> Bytes]
    /\ MapsUnused
    /\ ScanUnused
    /\ RefineUnused
    /\ LockUnused

NextLock ==
    \/ \E v \in LockValues, a \in 1..LockAddrs : LockValue(v, a)
    \/ \E a \in 1..LockAddrs : UnlockValue(a)
    \/ \E w \in 1..MaxWorkers : WorkerLoad(w)
    \/ \E w \in 1..MaxWorkers : WorkerWrite(w)
    \/ \E w \in 1..MaxWorkers : WorkerWake(w)
    \/ \E a \in LockMem, b \in Bytes : ExternalWrite(a, b)
    \/ \E a \in LockMem : TargetProtectWrite(a)

SpecLock == InitLock /\ [][NextLock]_vars

\* The scheduler runs every thread; a sleep of 1 ms ends
LiveLock == SpecLock /\ \A w \in 1..MaxWorkers : WF_vars(WorkerStep(w))

Held(w) == w \in 1..Len(workers) /\ workers[w].held

ValueAt(w) ==
    \A j \in 1..Len(workers[w].value) : mem[workers[w].address + j - 1] = workers[w].value[j]

\* C4 as stated: while unlock_value(addr) has not been called since
\* lock_value(v, addr), addr holds v again some time after every disturbance.
C4_LockedValueReturns ==
    \A w \in 1..MaxWorkers : Held(w) ~> (~Held(w) \/ ValueAt(w))

\* C4 as amended: ... addr holds v again some time after every disturbance,
\* unless the write to addr fails at that time.
C4_LockedValueReturnsWhileWritable ==
    \A w \in 1..MaxWorkers :
        Held(w) ~> (~Held(w) \/ ValueAt(w) \/ ~WriteSucceeds(workers[w].address, workers[w].value))

C4_Witness ==
    \E w \in 1..Len(workers) :
        /\ workers[w].held /\ workers[w].wpc = "sleep"
        /\ ~ValueAt(w)
        /\ WriteSucceeds(workers[w].address, workers[w].value)

Running(a) == \E w \in 1..Len(workers) : workers[w].address = a /\ workers[w].wpc # "exit"

\* C5: after unlock_value(addr), whatever calls came before, the threads that
\* write addr come to an end: from then on an external write stays.
C5_UnlockedAddressIsLeftAlone ==
    \A a \in 1..LockAddrs : (a \notin DOMAIN locks) ~> (a \in DOMAIN locks \/ ~Running(a))

Cancelled(w) == w \in 1..Len(workers) /\ ~workers[w].flag

Exited(w) == w \in 1..Len(workers) /\ workers[w].wpc = "exit"

\* C12: once unlock_value has stored false into a thread's flag, the thread
\* begins no new write: the one write it may still issue is the one it was at,
\* past its look at the flag; and, scheduled fairly, it comes to its end at
\* its next look at the flag.
C12_BoundedCancellation ==
    /\ [][\A w \in 1..Len(workers) :
              (Cancelled(w) /\ workers[w].wpc # "write") => workers'[w].wpc # "write"]_vars
    /\ \A w \in 1..MaxWorkers : Cancelled(w) ~> Exited(w)

C12_Witness ==
    \E w \in 1..Len(workers) : Cancelled(w) /\ workers[w].wpc = "write"

Live(w) == w \in 1..Len(workers) /\ workers[w].flag

\* C14: an address has a thread whose flag is still true exactly when it is a
\* key of locks, and that thread is the one the entry holds, and no other.
C14_TableIsTruth ==
    /\ \A a \in 1..LockAddrs :
          (\E w \in 1..Len(workers) : Live(w) /\ workers[w].address = a) <=> a \in DOMAIN locks
    /\ \A w \in 1..Len(workers) :
          Live(w) => (workers[w].address \in DOMAIN locks /\ locks[workers[w].address] = w)

\* C16: a write that fails does not end the thread: the thread goes on to its
\* sleep with its flag as it was; a thread comes to its end only with its flag
\* false; and a thread asleep whose flag stays true comes to write again.
C16_FailedWriteKeepsLooping ==
    /\ [][\A w \in 1..Len(workers) :
              /\ (workers[w].wpc = "write" /\ workers'[w].wpc # "write"
                    /\ ~WriteSucceeds(workers[w].address, workers[w].value))
                  => (workers'[w].wpc = "sleep" /\ workers'[w].flag = workers[w].flag
                        /\ mem' = mem)
              /\ (workers[w].wpc # "exit" /\ workers'[w].wpc = "exit") => ~workers[w].flag]_vars
    /\ \A w \in 1..MaxWorkers :
          (Live(w) /\ workers[w].wpc = "sleep") ~> (~Live(w) \/ workers[w].wpc = "write")

C16_Witness ==
    \E w \in 1..Len(workers) :
        /\ Live(w) /\ workers[w].wpc = "sleep"
        /\ ~ValueAt(w)
        /\ ~WriteSucceeds(workers[w].address, workers[w].value)

\* What the program holds of a thread: the history field left out
Thread(w) == [address |-> workers[w].address, value |-> workers[w].value,
              flag |-> workers[w].flag, wpc |-> workers[w].wpc]

\* C17: unlock_value(a) changes the entry and the flag of a only: the entry of
\* every other address b and every thread of b are as before, no memory is
\* written, and with no entry for a nothing changes at all.
C17_UnlockTouchesOnlyItsAddress ==
    [][\A a \in 1..LockAddrs :
          UnlockValue(a) =>
             /\ DOMAIN locks' = DOMAIN locks \ {a}
             /\ \A b \in DOMAIN locks \ {a} : locks'[b] = locks[b]
             /\ Len(workers') = Len(workers)
             /\ \A w \in 1..Len(workers) :
                   workers[w].address # a => workers'[w] = workers[w]
             /\ \A w \in 1..Len(workers) :
                   (a \in DOMAIN locks /\ locks[a] = w)
                   \/ Thread(w)' = Thread(w)
             /\ mem' = mem /\ unwritable' = unwritable]_vars

C17_Witness ==
    \E a, b \in 1..LockAddrs :
        /\ a \notin DOMAIN locks /\ b \in DOMAIN locks
        /\ Live(locks[b]) /\ workers[locks[b]].wpc = "write"
        /\ \E w \in 1..Len(workers) : workers[w].address = a /\ Cancelled(w)

====
